---- MODULE Spec2Model ----
(***************************************************************************)
(* Model of src/app.py, the Streamlit "Global Market Dashboard".           *)
(*                                                                         *)
(* One script run (lines 16-228) is split at the places where its control  *)
(* flow can end or branch: the cached call of fetch_series (106-128), the  *)
(* per-ticker loop of fetch_series (113-123), the "no data" stop (130-132),*)
(* the metrics rows and table (149-159) and the tabs (164-224).            *)
(*                                                                         *)
(* Numbers.  Closing prices are naturals.  A float that the script         *)
(* computes is a record [k, n, d]: k = "num" is the rational n/d (d > 0),  *)
(* k = "nan" and k = "inf" are the IEEE values numpy produces, k = "none"  *)
(* is Python's None.  A value rounded to two decimals has d = 100, so n    *)
(* counts hundredths.                                                      *)
(***************************************************************************)
EXTENDS Integers, Sequences, FiniteSets

VARIABLES
    pc,       \* position of the script run
    trigger,  \* what started the run: "load", "widget" or "refresh"
    sidebar,  \* values of the sidebar widgets (lines 20-24, 88-92)
    now,      \* wall clock, seconds
    cache,    \* st.cache_data's entries for fetch_series (line 106)
    prev,     \* history: per key, the latest fetch_series call since the last refresh
    idx,      \* fetch_series: position of the loop over tickers.items()
    out,      \* fetch_series: the dict `out` being built
    calls,    \* history: tickers handed to yf.download during this run
    df,       \* fetch_series: what yf.download answered in the current iteration
    hit,      \* history: this run's fetch_series call was served from the cache
    data,     \* line 128
    rows,     \* line 149
    table,    \* line 159
    chart     \* the series drawn by the Charts tab (lines 213-224)

vars == <<pc, trigger, sidebar, now, cache, prev, idx, out, calls, df, hit,
          data, rows, table, chart>>

----------------------------------------------------------------------------
(* Bounds of the model *)

\* longest table the provider returns in a batch run (SpecRun)
MaxRows == 2
\* longest table the provider returns in a single-ticker run (SpecSingle)
MaxLen == 3
\* number of metrics rows ranked in SpecRank
MaxRankRows == 11

\* closing prices the provider reports in a batch run (SpecRun) and in a
\* single-ticker run (SpecSingle)
BatchCloses == {0, 1}
SingleCloses == {0, 1, 2, 3}

\* the instants at which the session is observed
Instants == {0, 599, 600}

----------------------------------------------------------------------------
(* Program constants *)

\* @st.cache_data(ttl=600)
TTL == 600
\* table.nsmallest(10, ...), table.nlargest(10, ...)
TopN == 10

\* two of the eight periods of line 19; index=1 selects "1mo"
PERIOD_OPTIONS == {"5d", "1mo"}
DefaultPeriod == "1mo"

\* a reduced UNIVERSE: two groups, three labels, in the order of the dict
Groups == {"US", "Europe"}
ALL_SERIES ==
    << [label |-> "S&P 500",       group |-> "US",     ticker |-> "^GSPC"],
       [label |-> "NASDAQ 100",    group |-> "US",     ticker |-> "^NDX"],
       [label |-> "DAX (Germany)", group |-> "Europe", ticker |-> "^GDAXI"] >>

----------------------------------------------------------------------------
(* Floats *)

Rat(n, d) == [k |-> "num", n |-> n, d |-> d]
NaN  == [k |-> "nan",  n |-> 0, d |-> 1]
Inf  == [k |-> "inf",  n |-> 0, d |-> 1]
None == [k |-> "none", n |-> 0, d |-> 1]

\* numpy's end / start for non-negative float64 scalars: a zero divisor
\* yields inf (or nan for 0/0) with a warning, never an exception
FloatDiv(end, start) ==
    IF start = 0 THEN (IF end = 0 THEN NaN ELSE Inf)
    ELSE Rat(end, start)

\* (q - 1.0) * 100
MinusOneTimes100(q) ==
    IF q.k = "num" THEN Rat(100 * (q.n - q.d), q.d) ELSE q

\* n / d rounded to the nearest integer, ties to the even one (d > 0)
RoundHalfEven(n, d) ==
    LET q == n \div d
        r == n % d
    IN  IF 2 * r < d THEN q
        ELSE IF 2 * r > d THEN q + 1
        ELSE IF q % 2 = 0 THEN q ELSE q + 1

\* round(x, 2): nan and inf stay what they are
Round2(x) ==
    IF x.k = "num" THEN Rat(RoundHalfEven(100 * x.n, x.d), 100) ELSE x

----------------------------------------------------------------------------
(* The provider: what yf.download can answer for one ticker *)

Cell(v) == [nan |-> FALSE, v |-> v]
NaNCell == [nan |-> TRUE, v |-> 0]
Cells(vals) == {Cell(v) : v \in vals} \cup {NaNCell}

SeqsUpTo(S, n) == UNION {[1..m -> S] : m \in 1..n}

\* kind "error": the call raises; "empty": a table without rows;
\* "nocol": rows but no Close column; "table": rows with a Close column
Answer(kind, close) == [kind |-> kind, close |-> close]
\* no call has been made yet
NoAnswer == Answer("none", <<>>)
\* a table has up to n rows with closes in vals or missing
Outcomes(vals, n) ==
    {Answer("error", <<>>), Answer("empty", <<>>), Answer("nocol", <<>>)}
    \cup {Answer("table", c) : c \in SeqsUpTo(Cells(vals), n)}

\* the answers of a session: an error or a two-row table
SessionOutcomes ==
    {Answer("error", <<>>), Answer("table", <<Cell(1), Cell(2)>>)}

----------------------------------------------------------------------------
(* Sidebar and universe (lines 16-24, 82-95, 127) *)

Sidebar(p, i, t, n, g) ==
    [period |-> p, show_intraday_change |-> i, show_trend_charts |-> t,
     normalize_charts |-> n, group_choices |-> g]

\* every setting of the widgets
Sidebars ==
    {Sidebar(p, i, t, n, g) :
        p \in PERIOD_OPTIONS, i \in BOOLEAN, t \in BOOLEAN, n \in BOOLEAN,
        g \in SUBSET Groups}

\* the values the widgets have on the first load
DefaultSidebar == Sidebar(DefaultPeriod, TRUE, TRUE, TRUE, Groups)

\* the settings a session moves between: the defaults, and one group under
\* either period; the three checkboxes keep their defaults
SessionSidebars ==
    {DefaultSidebar} \cup
    {Sidebar(p, TRUE, TRUE, TRUE, {"Europe"}) : p \in PERIOD_OPTIONS}

InGroups(g, m) == m.group \in g

selected_labels(g) == SelectSeq(ALL_SERIES, LAMBDA m : InGroups(g, m))

label_to_ticker(g) ==
    [i \in 1..Len(selected_labels(g)) |->
        [label |-> selected_labels(g)[i].label,
         ticker |-> selected_labels(g)[i].ticker]]

GroupOf(label) ==
    (CHOOSE m \in {ALL_SERIES[i] : i \in 1..Len(ALL_SERIES)} : m.label = label).group

\* the arguments of the fetch_series call of line 128: the cache key
Key == [tickers |-> label_to_ticker(sidebar.group_choices),
        period |-> sidebar.period]

----------------------------------------------------------------------------
(* st.cache_data(ttl=600) around fetch_series (line 106) and its clear()   *)
(* (line 28).  An entry is valid while its age is below the ttl; the age   *)
(* counts from the call that stored it, a later read does not renew it.    *)
(* The field `fresh` is history: an entry is stored fresh, and a refresh   *)
(* marks whatever it leaves behind.                                        *)

Entry(key, res, at) == [key |-> key, res |-> res, at |-> at, fresh |-> TRUE]

\* a lookup that forgets the period in the key
CacheGet_TickersOnly(c, key, t) ==
    {e \in c : e.key.tickers = key.tickers /\ t - e.at < TTL}

CacheGet(c, key, t) == {e \in c : e.key = key /\ t - e.at < TTL}

CachePut(c, key, res, t) == {e \in c : e.key # key} \cup {Entry(key, res, t)}

\* a clear that removes nothing
CacheClear_Nothing(c) == c

CacheClear(c) == {}

----------------------------------------------------------------------------
(* fetch_series (lines 107-124) *)

IsNum(c) == ~c.nan

\* df[["Close"]].dropna()
Dropna(close) ==
    LET kept == SelectSeq(close, IsNum)
    IN  [i \in 1..Len(kept) |-> kept[i].v]

\* a try block around the whole loop: an error drops what was collected
TryBody_ErrorAborts(o, label, a) ==
    IF a.kind = "error" THEN <<>>
    ELSE IF a.kind = "empty" THEN o
    ELSE IF a.kind = "nocol" THEN o
    ELSE Append(o, [label |-> label, close |-> Dropna(a.close)])

\* the body of the try block for one (label, ticker): the dict `out` after it
TryBody(o, label, a) ==
    IF a.kind = "error" THEN o                       \* yf.download raises
    ELSE IF a.kind = "empty" THEN o                  \* df.empty: continue
    ELSE IF a.kind = "nocol" THEN o                  \* df[["Close"]]: KeyError
    ELSE Append(o, [label |-> label, close |-> Dropna(a.close)])

----------------------------------------------------------------------------
(* Metrics (lines 137-157) *)

\* the change taken from the second-to-last close instead of the first
pct_change_from_previous(close) ==
    IF Len(close) < 2 THEN NaN
    ELSE MinusOneTimes100(FloatDiv(close[Len(close)], close[Len(close) - 1]))

pct_change_over_period(close) ==
    IF Len(close) < 2 THEN NaN
    ELSE MinusOneTimes100(FloatDiv(close[Len(close)], close[1]))

one_day_change(close) ==
    IF Len(close) < 2 THEN NaN
    ELSE MinusOneTimes100(FloatDiv(close[Len(close)], close[Len(close) - 1]))

\* df["Close"].iloc[-1] raises IndexError on a frame without rows
RowRaises(d) == Len(d.close) = 0

\* the dict appended to rows for one entry of data (lines 151-157)
MetricsRow(d, show) ==
    [Label     |-> d.label,
     Group     |-> GroupOf(d.label),
     PeriodPct |-> Round2(pct_change_over_period(d.close)),
     OneDayPct |-> IF show THEN Round2(one_day_change(d.close)) ELSE None,
     Last      |-> Round2(Rat(d.close[Len(d.close)], 1))]

\* rows after the loop of lines 150-157: it stops at the first entry that raises
RowsOf(dat, show) ==
    LET bad  == {i \in 1..Len(dat) : RowRaises(dat[i])}
        stop == IF bad = {} THEN Len(dat) + 1
                ELSE CHOOSE i \in bad : \A j \in bad : i <= j
    IN  [i \in 1..(stop - 1) |-> MetricsRow(dat[i], show)]

----------------------------------------------------------------------------
(* Ranking (lines 159, 171, 174) *)

IsNa(r) == r.PeriodPct.k = "nan"
NotNa(r) == ~IsNa(r)

\* a < b for two floats that are not nan
FloatLess(a, b) ==
    IF a.k = "inf" THEN FALSE
    ELSE IF b.k = "inf" THEN TRUE
    ELSE a.n * b.d < b.n * a.d

\* r goes strictly before x in the requested direction
GoesBefore(r, x, ascending) ==
    IF ascending THEN FloatLess(r.PeriodPct, x.PeriodPct)
    ELSE FloatLess(x.PeriodPct, r.PeriodPct)

RECURSIVE Insert(_, _, _)
Insert(r, s, ascending) ==
    IF s = <<>> THEN <<r>>
    ELSE IF GoesBefore(r, Head(s), ascending) THEN <<r>> \o s
    ELSE <<Head(s)>> \o Insert(r, Tail(s), ascending)

RECURSIVE StableSort(_, _)
StableSort(s, ascending) ==
    IF s = <<>> THEN <<>>
    ELSE Insert(s[Len(s)], StableSort(SubSeq(s, 1, Len(s) - 1), ascending), ascending)

\* na_position="first"
sort_values_NaFirst(t, ascending) ==
    SelectSeq(t, IsNa) \o StableSort(SelectSeq(t, NotNa), ascending)

\* sort_values(by="Period %", ascending=..., na_position="last")
sort_values(t, ascending) ==
    StableSort(SelectSeq(t, NotNa), ascending) \o SelectSeq(t, IsNa)

Take(s, n) == SubSeq(s, 1, IF Len(s) < n THEN Len(s) ELSE n)

nsmallest(n, t) == Take(sort_values(t, TRUE), n)
nlargest(n, t) == Take(sort_values(t, FALSE), n)

Bottom10 == nsmallest(TopN, table)
Top10 == nlargest(TopN, table)

----------------------------------------------------------------------------
(* Charts tab (lines 189-224) *)

\* s / s.iloc[0] * 100.0, point by point
Normalized(close) ==
    [i \in 1..Len(close) |->
        LET q == FloatDiv(close[i], close[1])
        IN  IF q.k = "num" THEN Rat(100 * q.n, q.d) ELSE q]

Plain(close) == [i \in 1..Len(close) |-> Rat(close[i], 1)]

\* the combined chart normalizes without a guard (line 206)
CombinedRaises(dat, sb) ==
    /\ sb.show_trend_charts
    /\ sb.normalize_charts
    /\ \E i \in 1..Len(dat) : Len(dat[i].close) = 0

\* the mini-charts (lines 217-223)
MiniCharts(dat, sb) ==
    IF ~sb.show_trend_charts THEN <<>>
    ELSE [i \in 1..Len(dat) |->
            [label |-> dat[i].label,
             points |-> IF sb.normalize_charts /\ Len(dat[i].close) > 0
                        THEN Normalized(dat[i].close)
                        ELSE Plain(dat[i].close)]]

----------------------------------------------------------------------------
(* The script run *)

\* history: the call of fetch_series with arguments key returned res at time t
Called(h, key, t, res) ==
    {c \in h : c.key # key} \cup {[key |-> key, at |-> t, res |-> res]}

\* a test that never finds the result empty
NotData_Never(d) == FALSE

\* `not data` (line 130)
NotData(d) == d = <<>>

\* positions at which a run has ended: all tabs drawn, st.stop() after the
\* "no data" error, or an exception that escaped the script
Terminal == {"rendered", "stopped", "crashed"}

\* every script run starts from fresh locals
FreshRun ==
    /\ idx' = 1
    /\ out' = <<>>
    /\ calls' = <<>>
    /\ df' = NoAnswer
    /\ hit' = FALSE
    /\ data' = <<>>
    /\ rows' = <<>>
    /\ table' = <<>>
    /\ chart' = <<>>

\* the user changes widgets (possibly none of those modelled): the script reruns
UserInteraction(S) ==
    /\ pc \in Terminal
    /\ \E s \in S : sidebar' = s
    /\ trigger' = "widget"
    /\ pc' = "start"
    /\ FreshRun
    /\ UNCHANGED <<now, cache, prev>>

\* time passes while the page is idle
Tick ==
    /\ pc \in Terminal
    /\ \E t \in Instants : t > now /\ now' = t
    /\ UNCHANGED <<pc, trigger, sidebar, cache, prev, idx, out, calls, df,
                   hit, data, rows, table, chart>>

\* the "Refresh data" button (lines 26-30): the run it starts clears the
\* cache and asks for a rerun, which starts with the same widget values
RefreshData ==
    /\ pc \in Terminal
    /\ cache' = {[e EXCEPT !.fresh = FALSE] : e \in CacheClear(cache)}
    /\ prev' = {}
    /\ trigger' = "refresh"
    /\ pc' = "start"
    /\ FreshRun
    /\ UNCHANGED <<now, sidebar>>

\* line 128, the cache holds a valid entry for the arguments: its value is
\* returned and the body of fetch_series does not run
CacheHit ==
    /\ pc = "start"
    /\ CacheGet(cache, Key, now) # {}
    /\ \E e \in CacheGet(cache, Key, now) : data' = e.res
    /\ hit' = TRUE
    /\ prev' = Called(prev, Key, now, data')
    /\ pc' = "fetched"
    /\ UNCHANGED <<trigger, sidebar, now, cache, idx, out, calls, df, rows,
                   table, chart>>

\* line 128, no valid entry: the body of fetch_series starts (line 112)
CacheMiss ==
    /\ pc = "start"
    /\ CacheGet(cache, Key, now) = {}
    /\ hit' = FALSE
    /\ out' = <<>>
    /\ idx' = 1
    /\ pc' = "loop"
    /\ UNCHANGED <<trigger, sidebar, now, cache, prev, calls, df, data, rows,
                   table, chart>>

\* one iteration of the loop of lines 113-123; the provider answers a
DownloadOne(a) ==
    /\ pc = "loop"
    /\ idx <= Len(Key.tickers)
    /\ calls' = Append(calls, Key.tickers[idx].ticker)
    /\ df' = a
    /\ out' = TryBody(out, Key.tickers[idx].label, a)
    /\ idx' = idx + 1
    /\ UNCHANGED <<pc, trigger, sidebar, now, cache, prev, hit, data, rows,
                   table, chart>>

\* line 124: the loop is over, the result is stored and returned
FetchReturn ==
    /\ pc = "loop"
    /\ idx > Len(Key.tickers)
    /\ data' = out
    /\ cache' = CachePut(cache, Key, out, now)
    /\ prev' = Called(prev, Key, now, out)
    /\ out' = <<>>
    /\ df' = NoAnswer
    /\ pc' = "fetched"
    /\ UNCHANGED <<trigger, sidebar, now, idx, calls, hit, rows, table, chart>>

\* lines 130-132: st.error and st.stop
NoData ==
    /\ pc = "fetched"
    /\ NotData(data)
    /\ pc' = "stopped"
    /\ UNCHANGED <<trigger, sidebar, now, cache, prev, idx, out, calls, df,
                   hit, data, rows, table, chart>>

\* lines 149-159: the rows and the sorted table
BuildTable ==
    /\ pc = "fetched"
    /\ ~NotData(data)
    /\ rows' = RowsOf(data, sidebar.show_intraday_change)
    /\ IF \E i \in 1..Len(data) : RowRaises(data[i])
       THEN pc' = "crashed" /\ table' = <<>>
       ELSE pc' = "table" /\ table' = sort_values(rows', TRUE)
    /\ UNCHANGED <<trigger, sidebar, now, cache, prev, idx, out, calls, df,
                   hit, data, chart>>

\* lines 164-224: the three tabs
Render ==
    /\ pc = "table"
    /\ IF CombinedRaises(data, sidebar)
       THEN pc' = "crashed" /\ chart' = <<>>
       ELSE pc' = "rendered" /\ chart' = MiniCharts(data, sidebar)
    /\ UNCHANGED <<trigger, sidebar, now, cache, prev, idx, out, calls, df,
                   hit, data, rows, table>>

----------------------------------------------------------------------------
(* Specifications *)

StartOfRun(sb, trg) ==
    /\ pc = "start"
    /\ trigger = trg
    /\ sidebar = sb
    /\ now = 0
    /\ cache = {}
    /\ prev = {}
    /\ idx = 1
    /\ out = <<>>
    /\ calls = <<>>
    /\ df = NoAnswer
    /\ hit = FALSE
    /\ data = <<>>
    /\ rows = <<>>
    /\ table = <<>>
    /\ chart = <<>>

\* The session: the first load, then widget changes, refreshes and idle time.
Init == StartOfRun(DefaultSidebar, "load")

Next ==
    \/ UserInteraction(SessionSidebars)
    \/ Tick
    \/ RefreshData
    \/ CacheHit
    \/ CacheMiss
    \/ \E a \in SessionOutcomes : DownloadOne(a)
    \/ FetchReturn
    \/ NoData
    \/ BuildTable
    \/ Render

Spec == Init /\ [][Next]_vars

\* One run on an empty cache (the rerun after a refresh), for every setting
\* of the widgets and every answer of the provider to each ticker.
InitRun == \E sb \in Sidebars : StartOfRun(sb, "refresh")

NextRun ==
    \/ CacheMiss
    \/ \E a \in Outcomes(BatchCloses, MaxRows) : DownloadOne(a)
    \/ FetchReturn
    \/ NoData
    \/ BuildTable
    \/ Render

SpecRun == InitRun /\ [][NextRun]_vars

\* One run on an empty cache with a single ticker selected and longer tables.
InitSingle ==
    \E sb \in Sidebars : sb.group_choices = {"Europe"} /\ StartOfRun(sb, "refresh")

NextSingle ==
    \/ CacheMiss
    \/ \E a \in Outcomes(SingleCloses, MaxLen) : DownloadOne(a)
    \/ FetchReturn
    \/ NoData
    \/ BuildTable
    \/ Render

SpecSingle == InitSingle /\ [][NextSingle]_vars

\* The ranking of lines 159-177 on a table of up to MaxRankRows rows: rows are
\* added one at a time, each from a series without change (one point, so
\* Period % is nan), with a rise or with a fall, and the table is sorted anew.
RankSeries == {<<1>>, <<1, 2>>, <<2, 1>>}

RankRow(i, close) ==
    [MetricsRow([label |-> ALL_SERIES[1].label, close |-> close], TRUE)
        EXCEPT !.Label = i]

InitRank ==
    /\ pc = "rank"
    /\ trigger = "load"
    /\ sidebar = DefaultSidebar
    /\ now = 0
    /\ cache = {}
    /\ prev = {}
    /\ idx = 1
    /\ out = <<>>
    /\ calls = <<>>
    /\ df = NoAnswer
    /\ hit = FALSE
    /\ data = <<>>
    /\ rows = <<>>
    /\ table = <<>>
    /\ chart = <<>>

RankAppend ==
    /\ Len(rows) < MaxRankRows
    /\ \E close \in RankSeries :
          rows' = Append(rows, RankRow(Len(rows) + 1, close))
    /\ table' = sort_values(rows', TRUE)
    /\ UNCHANGED <<pc, trigger, sidebar, now, cache, prev, idx, out, calls, df,
                   hit, data, chart>>

NextRank == RankAppend

SpecRank == InitRank /\ [][NextRank]_vars

----------------------------------------------------------------------------
(* Properties *)

\* the run has passed line 128
PostFetch == pc \in {"fetched", "stopped", "table", "rendered", "crashed"}
\* the run has passed the rows loop of lines 149-157
PostRows == pc \in {"table", "rendered", "crashed"}

\* the closes of a table that are not missing, in order
RECURSIVE Present(_)
Present(cells) ==
    IF cells = <<>> THEN <<>>
    ELSE IF Head(cells).nan THEN Present(Tail(cells))
    ELSE <<Head(cells).v>> \o Present(Tail(cells))

Labels(dat) == {dat[i].label : i \in 1..Len(dat)}
Failed(a) == a.kind \in {"error", "empty", "nocol"}
Usable(a) == a.kind = "table" /\ Present(a.close) # <<>>

\* C1 (batch isolation): every iteration of the loop of fetch_series moves on
\* to the next ticker whatever the provider answered; it adds the label with
\* its present closes when the answer has usable data, and leaves the entries
\* collected so far untouched when the call raised or the table was empty or
\* had no Close column.  The result returned is the dict so built, after all
\* the tickers of the batch were asked, in order.
C1_BatchIsolation ==
    /\ [][calls' # calls =>
            /\ pc' = "loop"
            /\ idx' = idx + 1
            /\ calls' = Append(calls, Key.tickers[idx].ticker)
            /\ Usable(df') =>
                 out' = Append(out, [label |-> Key.tickers[idx].label,
                                     close |-> Present(df'.close)])
            /\ Failed(df') => out' = out]_vars
    /\ [][pc = "loop" /\ pc' # "loop" =>
            /\ pc' = "fetched"
            /\ data' = out
            /\ calls = [i \in 1..Len(Key.tickers) |-> Key.tickers[i].ticker]]_vars

\* C1 witness: the first two tickers of a batch of three gave nothing and the
\* third is returned
C1_Witness ==
    /\ pc = "fetched"
    /\ Len(calls) = 3
    /\ Len(data) = 1
    /\ data[1].label = ALL_SERIES[3].label

\* C2: every series in the result of fetch_series has at least one closing
\* price (a label without usable closes is omitted)
C2_NoEmptySeries ==
    PostFetch => \A i \in 1..Len(data) : Len(data[i].close) >= 1

\* C3 as amended: a call of fetch_series whose arguments have an entry stored
\* less than 600 seconds ago makes no provider call and returns the stored
\* result; a call served from the cache returns the result stored under its
\* own arguments; the cache holds one entry per key, stored by a call with
\* that key
C3_Memoized ==
    /\ pc = "loop" => ~ \E e \in cache : e.key = Key /\ now - e.at < TTL
    /\ pc = "fetched" /\ hit =>
          /\ calls = <<>>
          /\ \E e \in cache : e.key = Key /\ now - e.at < TTL /\ e.res = data
    /\ \A e \in cache :
          /\ e.at <= now
          /\ Labels(e.res) \subseteq Labels(e.key.tickers)
          /\ \A f \in cache : f.key = e.key => f = e

\* C3 witness: a call 599 seconds after the one that stored the result is
\* served from the cache
C3_Witness ==
    /\ pc = "fetched"
    /\ hit
    /\ data # <<>>
    /\ now = 599
    /\ \E e \in cache : e.key = Key /\ e.at = 0

\* C3 as stated: a call less than 600 seconds after the previous call with the
\* same arguments, with no refresh in between, makes no provider call and
\* returns the same result
C3_Original ==
    [][pc = "start" /\ pc' # "start" =>
         \A c \in prev :
            c.key = Key /\ now - c.at < TTL =>
               pc' = "fetched" /\ hit' /\ calls' = <<>> /\ data' = c.res]_vars

\* C4: the run started by the refresh button begins with an empty cache, its
\* fetch_series call is not served from the cache and asks the provider for
\* every ticker, and no entry that a refresh left behind is ever in the cache
C4_RefreshInvalidates ==
    /\ trigger = "refresh" /\ pc = "start" => cache = {}
    /\ trigger = "refresh" /\ PostFetch =>
          /\ ~hit
          /\ calls = [i \in 1..Len(Key.tickers) |-> Key.tickers[i].ticker]
    /\ \A e \in cache : e.fresh

\* C4 witness: a refresh at time 0, right after the first load fetched the
\* same three tickers, and the provider was asked again for all three
C4_Witness ==
    /\ trigger = "refresh"
    /\ pc = "fetched"
    /\ now = 0
    /\ Len(calls) = 3
    /\ data # <<>>

\* C5: a run that has passed line 130 is in the "no data" state exactly when
\* the fetch result is empty, and in that state no row, table or chart exists
C5_NoDataAtAll ==
    /\ pc = "stopped" => data = <<>> /\ rows = <<>> /\ table = <<>> /\ chart = <<>>
    /\ pc \in {"stopped", "table", "rendered", "crashed"} /\ data = <<>> =>
          pc = "stopped"

\* C5 witness: every one of three tickers failed
C5_Witness == pc = "stopped" /\ Len(calls) = 3

\* C6: no run ends in an uncaught exception
C6_NeverCrashes == pc # "crashed"

\* C7: every series of the fetch result with fewer than 2 points has a row
\* in rows, with its group, and both changes absent
C7_ShortSeriesRow ==
    PostRows =>
       \A i \in 1..Len(data) :
          Len(data[i].close) < 2 =>
             \E j \in 1..Len(rows) :
                /\ rows[j].Label = data[i].label
                /\ rows[j].Group = GroupOf(data[i].label)
                /\ rows[j].PeriodPct = NaN
                /\ rows[j].OneDayPct \in {NaN, None}

\* C9: the row of a series with at least 2 points and a zero first close
\* reports Period % as absent
C9_ZeroFirstGuarded ==
    \A j \in 1..Len(rows) :
       \A i \in 1..Len(data) :
          (/\ data[i].label = rows[j].Label
           /\ Len(data[i].close) >= 2
           /\ data[i].close[1] = 0)
          => rows[j].PeriodPct = NaN

Abs(x) == IF x < 0 THEN -x ELSE x

\* C10: the row of a series with at least 2 points and a nonzero first close
\* has Period % = (last / first - 1) * 100 in hundredths, to the nearest
\* hundredth; closes 100, 105, 98 give -2.00 and a one-day change of -6.67
C10_PeriodPct ==
    /\ \A j \in 1..Len(rows) :
          \A i \in 1..Len(data) :
             (/\ data[i].label = rows[j].Label
              /\ Len(data[i].close) >= 2
              /\ data[i].close[1] # 0)
             => LET first == data[i].close[1]
                    last  == data[i].close[Len(data[i].close)]
                    p     == rows[j].PeriodPct
                IN  /\ p.k = "num"
                    /\ p.d = 100
                    /\ 2 * Abs(p.n * first - 10000 * (last - first)) <= first
    /\ Round2(pct_change_over_period(<<100, 105, 98>>)) = Rat(-200, 100)
    /\ Round2(one_day_change(<<100, 105, 98>>)) = Rat(-667, 100)

\* C10 witness: a rendered row of a three-point series whose middle close
\* differs from both ends and whose Period % is not zero
C10_Witness ==
    /\ pc = "rendered"
    /\ Len(rows) = 1
    /\ data[1].close = <<2, 0, 1>>
    /\ rows[1].PeriodPct = Rat(-5000, 100)

NaLast(t) == \A i \in 1..Len(t) - 1 : IsNa(t[i]) => IsNa(t[i + 1])

Ordered(t, ascending) ==
    \A i \in 1..Len(t) - 1 :
       NotNa(t[i]) /\ NotNa(t[i + 1]) => ~GoesBefore(t[i + 1], t[i], ascending)

Numeric(t) == {t[i] : i \in {k \in 1..Len(t) : NotNa(t[k])}}

Min(a, b) == IF a < b THEN a ELSE b

\* s holds the n extreme numeric rows of t: s has as many rows as t, up to n,
\* all of them rows of t; as many numeric rows as t has, up to n; and no
\* numeric row left out would go before one that is in
Extremes(s, t, n, ascending) ==
    LET ns == Numeric(s)
        nt == Numeric(t)
    IN  /\ Len(s) = Min(n, Len(t))
        /\ {s[i] : i \in 1..Len(s)} \subseteq {t[i] : i \in 1..Len(t)}
        /\ Cardinality(ns) = Min(n, Cardinality(nt))
        /\ \A x \in nt \ ns : \A y \in ns : ~GoesBefore(x, y, ascending)

\* C8: in the full table, the Bottom 10 and the Top 10 no row with an absent
\* Period % comes before a row with a number; the table and the Bottom 10
\* are in ascending and the Top 10 in descending order; the Bottom 10 and the
\* Top 10 have at most 10 rows and hold the smallest resp. largest numbers
C8_Ranking ==
    LET bottom == Bottom10
        top    == Top10
    IN  /\ NaLast(table) /\ NaLast(bottom) /\ NaLast(top)
        /\ Ordered(table, TRUE) /\ Ordered(bottom, TRUE) /\ Ordered(top, FALSE)
        /\ Len(table) = Len(rows)
        /\ {table[i] : i \in 1..Len(table)} = {rows[i] : i \in 1..Len(rows)}
        /\ Len(bottom) <= TopN /\ Len(top) <= TopN
        /\ Extremes(bottom, table, TopN, TRUE)
        /\ Extremes(top, table, TopN, FALSE)

\* C8 witness: a table of more than 10 rows with absent values, rises and
\* falls, of which the Top 10 leaves out a fall
C8_Witness ==
    /\ Len(table) > TopN
    /\ \E i \in 1..Len(table) : IsNa(table[i])
    /\ \E i \in 1..Len(table) : table[i].PeriodPct = Rat(-5000, 100)
    /\ \E i \in 1..Len(table) : table[i].PeriodPct = Rat(10000, 100)
    /\ Top10[1] # Bottom10[1]

====
